---- MODULE Spec2Model ----
(***************************************************************************)
(* TravelSphere: the apply_discount stored procedure (database.sql) and    *)
(* the session / booking handlers of the Express server (server.js).       *)
(*                                                                         *)
(* Money is counted in cents (DECIMAL(10,2) scaled by 100); a promo's      *)
(* discount_value is likewise scaled by 100, so 10.00 is 1000.  A nullable *)
(* SQL value is a sequence of length at most one: <<>> is NULL.            *)
(***************************************************************************)
EXTENDS Integers, Sequences, FiniteSets, TLC

\* ------------------------------------------------------------------ bounds
MaxPrice == 11          \* booking_price ranges over 0.01 .. 0.11
MaxDate == 3            \* calendar days 1 .. MaxDate
MaxUses == 2            \* max_uses, current_uses range up to MaxUses
MaxBookings == 2        \* rows the bookings table may hold

Null == <<>>
Some(v) == <<v>>
Val(o) == o[1]

\* discount_value column, scaled by 100: 0.00, 0.03, 10.00, 50.00
PromoValues == {0, 3, 1000, 5000}
StoredCode == "SAVE"
\* promo_code argument: NULL, '', the stored code, the stored code in lower
\* case, and a code no row has
CodeArgs == {Null, Some(""), Some("SAVE"), Some("save"), Some("NOPE")}
Dates == 1..MaxDate

VARIABLES
  promo_codes,  \* promo_codes table: set of rows
  today,        \* CURDATE()
  calls,        \* connection -> state of its CALL apply_discount(...)
  users,        \* users table: id -> row
  sessions,     \* session store: session id -> session data
  bookings,     \* bookings table: id -> row
  nextBookingId,\* AUTO_INCREMENT of bookings.id
  res,          \* the response of the last request handled
  reviews,      \* reviews table: id -> row
  nextReviewId, \* AUTO_INCREMENT of reviews.id
  favorites,    \* favorites table: id -> row
  nextFavoriteId,\* AUTO_INCREMENT of favorites.id
  nextUserId,   \* AUTO_INCREMENT of users.id
  regs,         \* registration request -> its position in the handler
  now,          \* new Date(): the server's local calendar date <<y, m, d>>
  tzWest,       \* the server's time zone is behind UTC
  checkEnforced \* the MySQL server enforces CHECK constraints (8.0.16 on)

attVars == <<reviews, nextReviewId, favorites, nextFavoriteId>>
regVars == <<nextUserId, regs>>
envVars == <<now, tzWest, checkEnforced>>
vars == <<promo_codes, today, calls, users, sessions, bookings, nextBookingId, res,
          attVars, regVars, envVars>>
dbVars == <<promo_codes, today, calls>>
srvVars == <<users, sessions, bookings, nextBookingId, res, attVars, regVars, envVars>>

\* ------------------------------------------------- apply_discount, helpers

\* assignment of an exact non-negative quotient num/den (in cents) to a
\* DECIMAL(10,2) variable: MySQL rounds half away from zero
RoundCents(num, den) == (2 * num + den) \div (2 * den)

\* the default *_ci collation compares VARCHAR case-insensitively
Fold(s) == IF s = "save" THEN "SAVE" ELSE s
CodeEq(a, b) == Fold(a) = Fold(b)

StudentDiscountTrunc(price, is_student) ==
  IF is_student THEN price \div 10 ELSE 0
StudentDiscountAlways(price, is_student) == RoundCents(price, 10)
\* IF is_student THEN SET student_discount = booking_price * 0.10
StudentDiscount(price, is_student) ==
  IF is_student THEN RoundCents(price, 10) ELSE 0

PromoRowValidExclusiveEnd(row, code, day) ==
  /\ CodeEq(row.code, code)
  /\ row.is_active = TRUE
  /\ row.valid_from <= day /\ day < row.valid_until
  /\ (row.max_uses = Null \/ row.current_uses < Val(row.max_uses))
\* the WHERE clause of the SELECT ... INTO
PromoRowValid(row, code, day) ==
  /\ CodeEq(row.code, code)
  /\ row.is_active = TRUE
  /\ row.valid_from <= day /\ day <= row.valid_until
  /\ (row.max_uses = Null \/ row.current_uses < Val(row.max_uses))

\* SELECT discount_type, discount_value INTO promo_type, promo_value:
\* the variables keep NULL when no row qualifies or no code is supplied
SelectPromo(promo_code) ==
  IF promo_code # Null /\ Val(promo_code) # ""
     /\ \E r \in promo_codes : PromoRowValid(r, Val(promo_code), today)
  THEN LET r == CHOOSE r \in promo_codes : PromoRowValid(r, Val(promo_code), today)
       IN  [promo_type |-> Some(r.discount_type), promo_value |-> Some(r.discount_value)]
  ELSE [promo_type |-> Null, promo_value |-> Null]

PromoDiscountOnOriginal(price, student_discount, promo_type, promo_value) ==
  IF promo_type = Some("percentage")
  THEN RoundCents(price * Val(promo_value), 10000)
  ELSE IF promo_type = Some("fixed") THEN Val(promo_value) ELSE 0
\* IF promo_type = 'percentage' ... ELSEIF promo_type = 'fixed' ... END IF
PromoDiscount(price, student_discount, promo_type, promo_value) ==
  IF promo_type = Some("percentage")
  THEN RoundCents((price - student_discount) * Val(promo_value), 10000)
  ELSE IF promo_type = Some("fixed") THEN Val(promo_value) ELSE 0

GreatestNoFloor(a, b) == a
\* GREATEST(booking_price - discount_applied, 0)
Greatest(a, b) == IF a >= b THEN a ELSE b

\* ------------------------------------------------- apply_discount, actions

IdleCall ==
  [pc |-> "idle", booking_price |-> 0, promo_code |-> Null, is_student |-> FALSE,
   student_discount |-> 0, promo_discount |-> 0, promo_type |-> Null,
   promo_value |-> Null, final_price |-> Null, discount_applied |-> Null]

\* CALL apply_discount(price, code, student): BEGIN .. the SELECT INTO
apply_discount_select(c, price, code, student) ==
  /\ calls[c].pc = "idle"
  /\ LET sel == SelectPromo(code) IN
     calls' = [calls EXCEPT ![c] =
        [pc |-> "selected", booking_price |-> price, promo_code |-> code,
         is_student |-> student,
         student_discount |-> StudentDiscount(price, student),
         promo_discount |-> 0,
         promo_type |-> sel.promo_type, promo_value |-> sel.promo_value,
         final_price |-> Null, discount_applied |-> Null]]
  /\ UNCHANGED <<promo_codes, today, srvVars>>

apply_discount_set_redeeming(c) ==
  /\ calls[c].pc = "selected"
  /\ LET k == calls[c]
         pd == PromoDiscount(k.booking_price, k.student_discount, k.promo_type, k.promo_value)
         da == k.student_discount + pd
     IN /\ calls' = [calls EXCEPT ![c] =
             [k EXCEPT !.pc = "done", !.promo_discount = pd,
                       !.discount_applied = Some(da),
                       !.final_price = Some(Greatest(k.booking_price - da, 0))]]
        /\ promo_codes' =
             {IF k.promo_type # Null /\ CodeEq(r.code, Val(k.promo_code))
              THEN [r EXCEPT !.current_uses = r.current_uses + 1] ELSE r :
              r \in promo_codes}
  /\ UNCHANGED <<today, srvVars>>
\* the rest of the procedure: promo_discount, then the two OUT parameters
apply_discount_set(c) ==
  /\ calls[c].pc = "selected"
  /\ LET k == calls[c]
         pd == PromoDiscount(k.booking_price, k.student_discount, k.promo_type, k.promo_value)
         da == k.student_discount + pd
     IN calls' = [calls EXCEPT ![c] =
          [k EXCEPT !.pc = "done", !.promo_discount = pd,
                    !.discount_applied = Some(da),
                    !.final_price = Some(Greatest(k.booking_price - da, 0))]]
  /\ UNCHANGED <<promo_codes, today, srvVars>>

PromoRows ==
  [code : {StoredCode}, discount_type : {"percentage", "fixed"},
   discount_value : PromoValues,
   max_uses : {Null} \cup {Some(n) : n \in 1..MaxUses},
   current_uses : 0..MaxUses,
   valid_from : Dates, valid_until : Dates, is_active : BOOLEAN]

NextDiscount ==
  \/ \E c \in DOMAIN calls, price \in 1..MaxPrice, code \in CodeArgs, student \in BOOLEAN :
        apply_discount_select(c, price, code, student)
  \/ \E c \in DOMAIN calls : apply_discount_set(c)

\* the table is empty or holds one row; valid_from and valid_until range over
\* the days before, on and after today
InitDiscountRows ==
  /\ promo_codes \in {{}} \cup {{r} : r \in PromoRows}
  /\ today = 2

\* ------------------------------------------------------ server.js, helpers

MaxSessions == 1
MaxSeed == 1            \* bookings rows already stored when the server starts

SessionIds == 1..MaxSessions
UserIds == 1..2
BookingIds == 1..MaxBookings
Statuses == {"pending", "confirmed", "cancelled", "completed"}
\* request bodies: a missing field is "", a missing or zero price is 0
TypeArgs == {"", "flight"}
ItemArgs == {"", "Taj Resort"}
PriceArgs == {0, 2500}

\* INSERT INTO users ... : the sample admin and the sample student
SeedUsers ==
  (1 :> [email |-> "admin@travelsphere.com", is_admin |-> TRUE, is_student |-> FALSE,
         dob |-> Null, updated_at |-> 0]) @@
  (2 :> [email |-> "student@travelsphere.com", is_admin |-> FALSE, is_student |-> TRUE,
         dob |-> Null, updated_at |-> 0])

NoSession == [userId |-> Null, isAdmin |-> FALSE, admin |-> FALSE]

NoStats == [totalUsers |-> 0, totalBookings |-> 0, totalRevenue |-> 0]

\* a response of server.js: the HTTP status and, where the handler reports
\* them, the generated id and the row counts of its statement
Resp(op, sid, id, code, affected, changed) ==
  [op |-> op, sid |-> sid, id |-> id, code |-> code,
   affectedRows |-> affected, changedRows |-> changed,
   success |-> (code = 200), error |-> "", arg |-> 0,
   item |-> <<"", "">>, param |-> "", dob |-> Null, flags |-> <<Null, Null>>,
   stats |-> NoStats]

\* a response of the older server (part_000): always HTTP 200, the outcome
\* is the success flag and the error text of the JSON body
LegacyReply(op, sid, success, error) ==
  [Resp(op, sid, 0, 200, 0, 0) EXCEPT !.success = success, !.error = error]

\* function requireAuth: passes iff req.session.userId is set
requireAuth(s) == sessions[s].userId # Null

CancelMatchedAnyOwner(id, userId) ==
  {b \in DOMAIN bookings : b = id}
\* WHERE id = ? AND user_id = ?
CancelMatched(id, userId) ==
  {b \in DOMAIN bookings : b = id /\ bookings[b].user_id = userId}

\* rows of the UPDATE whose status actually changes (result.changedRows)
ChangedRows(matched) ==
  Cardinality({b \in matched : bookings[b].status # "cancelled"})

AffectedRowsOnlyChanged(matched) == ChangedRows(matched)
\* result.affectedRows: mysql2 connects with the FOUND_ROWS flag, so the
\* count is of the rows the WHERE clause matched, changed or not
AffectedRows(matched) == Cardinality(matched)

\* ------------------------------------------------------ server.js, actions

\* POST /api/login: found says whether the identifier names user u's row,
\* valid is the outcome of bcrypt.compare
Login(s, u, valid) ==
  /\ IF u \in DOMAIN users /\ valid
     THEN /\ sessions' = [sessions EXCEPT ![s] =
                 [sessions[s] EXCEPT !.userId = Some(u), !.isAdmin = users[u].is_admin]]
          /\ res' = Resp("login", s, u, 200, 0, 0)
     ELSE /\ sessions' = sessions
          /\ res' = Resp("login", s, u, 401, 0, 0)
  /\ UNCHANGED <<users, bookings, nextBookingId, dbVars, attVars, regVars, envVars>>

\* POST /api/logout: req.session.destroy
Logout(s) ==
  /\ sessions' = [sessions EXCEPT ![s] = NoSession]
  /\ res' = Resp("logout", s, 0, 200, 0, 0)
  /\ UNCHANGED <<users, bookings, nextBookingId, dbVars, attVars, regVars, envVars>>

\* POST /api/bookings
CreateBooking(s, type, itemName, price) ==
  /\ IF ~requireAuth(s)
     THEN /\ res' = Resp("createBooking", s, 0, 401, 0, 0)
          /\ UNCHANGED <<bookings, nextBookingId>>
     ELSE IF type = "" \/ itemName = "" \/ price = 0
     THEN /\ res' = Resp("createBooking", s, 0, 400, 0, 0)
          /\ UNCHANGED <<bookings, nextBookingId>>
     ELSE IF Val(sessions[s].userId) \notin DOMAIN users
     THEN /\ res' = Resp("createBooking", s, 0, 500, 0, 0)
          /\ UNCHANGED <<bookings, nextBookingId>>
     ELSE /\ nextBookingId <= MaxBookings
          /\ bookings' = bookings @@ (nextBookingId :>
                [user_id |-> Val(sessions[s].userId), booking_type |-> type,
                 item_name |-> itemName, price |-> price, status |-> "confirmed"])
          /\ nextBookingId' = nextBookingId + 1
          /\ res' = Resp("createBooking", s, nextBookingId, 200, 1, 1)
  /\ UNCHANGED <<users, sessions, dbVars, attVars, regVars, envVars>>

CancelBookingToggle(s, id) ==
  /\ IF ~requireAuth(s)
     THEN /\ res' = Resp("cancel", s, id, 401, 0, 0)
          /\ UNCHANGED bookings
     ELSE LET matched == CancelMatched(id, Val(sessions[s].userId))
              affectedRows == AffectedRows(matched)
          IN /\ bookings' = [b \in DOMAIN bookings |->
                              IF b \in matched
                              THEN [bookings[b] EXCEPT !.status =
                                      IF @ = "cancelled" THEN "confirmed" ELSE "cancelled"]
                              ELSE bookings[b]]
             /\ res' = Resp("cancel", s, id,
                            IF affectedRows = 0 THEN 404 ELSE 200,
                            affectedRows, affectedRows)
  /\ UNCHANGED <<users, sessions, nextBookingId, dbVars, attVars, regVars, envVars>>
\* PATCH /api/bookings/:id/cancel
CancelBooking(s, id) ==
  /\ IF ~requireAuth(s)
     THEN /\ res' = Resp("cancel", s, id, 401, 0, 0)
          /\ UNCHANGED bookings
     ELSE LET matched == CancelMatched(id, Val(sessions[s].userId))
              affectedRows == AffectedRows(matched)
          IN /\ bookings' = [b \in DOMAIN bookings |->
                              IF b \in matched
                              THEN [bookings[b] EXCEPT !.status = "cancelled"]
                              ELSE bookings[b]]
             /\ res' = Resp("cancel", s, id,
                            IF affectedRows = 0 THEN 404 ELSE 200,
                            affectedRows, ChangedRows(matched))
  /\ UNCHANGED <<users, sessions, nextBookingId, dbVars, attVars, regVars, envVars>>

SeedBookingRows ==
  [user_id : DOMAIN SeedUsers, booking_type : {"flight"}, item_name : {"Taj Resort"},
   price : {7000}, status : Statuses]

\* no review, no favorite, no registration in flight; a server in UTC on
\* 2026-11-02 against a MySQL that enforces CHECK constraints
InitRest ==
  /\ reviews = <<>> /\ nextReviewId = 1
  /\ favorites = <<>> /\ nextFavoriteId = 1
  /\ nextUserId = 3 /\ regs = <<>>
  /\ now = <<2026, 11, 2>> /\ tzWest = FALSE /\ checkEnforced = TRUE

InitServer ==
  /\ users = SeedUsers
  /\ sessions = [s \in SessionIds |-> NoSession]
  /\ \E n \in 0..MaxSeed : /\ bookings \in [1..n -> SeedBookingRows]
                           /\ nextBookingId = n + 1
  /\ res = Resp("none", 0, 0, 0, 0, 0)
  /\ InitRest

NextServer ==
  \/ \E s \in SessionIds, u \in UserIds \cup {0}, valid \in BOOLEAN : Login(s, u, valid)
  \/ \E s \in SessionIds : Logout(s)
  \/ \E s \in SessionIds, type \in TypeArgs, itemName \in ItemArgs, price \in PriceArgs :
        CreateBooking(s, type, itemName, price)
  \/ \E s \in SessionIds, id \in BookingIds : CancelBooking(s, id)

\* ------------------------------------------------------------------ reviews

MaxReviews == 1         \* rows the reviews table may hold

\* request bodies: a missing bookingId or rating is 0; MaxBookings + 1 is an
\* id no booking has
BookingIdArgs == 0..(MaxBookings + 1)
RatingArgs == {0, 1, 5, 6}

\* rating INT NOT NULL CHECK (rating >= 1 AND rating <= 5)
RatingCheck(rating) == rating >= 1 /\ rating <= 5

\* the INSERT INTO reviews is refused by the store: a foreign key with no
\* parent row, or the CHECK on a server that enforces CHECK constraints
ReviewInsertFails(userId, bookingId, rating) ==
  \/ userId \notin DOMAIN users
  \/ bookingId \notin DOMAIN bookings
  \/ checkEnforced /\ ~RatingCheck(rating)

\* POST /api/reviews (server.js)
AddReview(s, bookingId, rating) ==
  /\ IF ~requireAuth(s)
     THEN /\ res' = [Resp("addReview", s, bookingId, 401, 0, 0) EXCEPT !.arg = rating]
          /\ UNCHANGED <<reviews, nextReviewId>>
     ELSE IF bookingId = 0 \/ rating = 0
     THEN /\ res' = [Resp("addReview", s, bookingId, 400, 0, 0) EXCEPT !.arg = rating]
          /\ UNCHANGED <<reviews, nextReviewId>>
     ELSE LET userId == Val(sessions[s].userId) IN
          IF ~(bookingId \in DOMAIN bookings /\ bookings[bookingId].user_id = userId)
          THEN /\ res' = [Resp("addReview", s, bookingId, 404, 0, 0) EXCEPT !.arg = rating]
               /\ UNCHANGED <<reviews, nextReviewId>>
          ELSE IF ReviewInsertFails(userId, bookingId, rating)
          THEN /\ res' = [Resp("addReview", s, bookingId, 500, 0, 0) EXCEPT !.arg = rating]
               /\ UNCHANGED <<reviews, nextReviewId>>
          ELSE /\ nextReviewId <= MaxReviews
               /\ reviews' = reviews @@ (nextReviewId :>
                     [user_id |-> userId, booking_id |-> bookingId, rating |-> rating])
               /\ nextReviewId' = nextReviewId + 1
               /\ res' = [Resp("addReview", s, bookingId, 200, 1, 1) EXCEPT !.arg = rating]
  /\ UNCHANGED <<users, sessions, bookings, nextBookingId, dbVars,
                 favorites, nextFavoriteId, regVars, envVars>>

LegacyAuthNone(s) == TRUE
\* if (!req.session.userId) of the older server's handlers
LegacyAuth(s) == sessions[s].userId # Null

\* req.session.userId as a statement parameter; 0 stands for an unset value,
\* which no users row has
SessionUser(s) == IF sessions[s].userId = Null THEN 0 ELSE Val(sessions[s].userId)

\* POST /api/book (part_000): no status in the INSERT, so the column default
\* 'confirmed' applies; the reply carries no identifier
Book(s, booking_type, item_name, price) ==
  /\ IF ~LegacyAuth(s)
     THEN /\ res' = LegacyReply("book", s, FALSE, "Please login first.")
          /\ UNCHANGED <<bookings, nextBookingId>>
     ELSE IF booking_type = "" \/ item_name = "" \/ price = 0
             \/ SessionUser(s) \notin DOMAIN users
     THEN /\ res' = LegacyReply("book", s, FALSE, "Booking failed. Try again.")
          /\ UNCHANGED <<bookings, nextBookingId>>
     ELSE /\ nextBookingId <= MaxBookings
          /\ bookings' = bookings @@ (nextBookingId :>
                [user_id |-> SessionUser(s), booking_type |-> booking_type,
                 item_name |-> item_name, price |-> price, status |-> "confirmed"])
          /\ nextBookingId' = nextBookingId + 1
          /\ res' = LegacyReply("book", s, TRUE, "")
  /\ UNCHANGED <<users, sessions, dbVars, attVars, regVars, envVars>>

\* POST /api/review (part_000): no look-up of the booking's owner
Review(s, booking_id, rating) ==
  /\ IF ~LegacyAuth(s)
     THEN /\ res' = [LegacyReply("review", s, FALSE, "Please login first.")
                        EXCEPT !.id = booking_id, !.arg = rating]
          /\ UNCHANGED <<reviews, nextReviewId>>
     ELSE LET userId == SessionUser(s) IN
          IF ReviewInsertFails(userId, booking_id, rating)
          THEN /\ res' = [LegacyReply("review", s, FALSE, "Failed to add review.")
                             EXCEPT !.id = booking_id, !.arg = rating]
               /\ UNCHANGED <<reviews, nextReviewId>>
          ELSE /\ nextReviewId <= MaxReviews
               /\ reviews' = reviews @@ (nextReviewId :>
                     [user_id |-> userId, booking_id |-> booking_id, rating |-> rating])
               /\ nextReviewId' = nextReviewId + 1
               /\ res' = [LegacyReply("review", s, TRUE, "")
                             EXCEPT !.id = booking_id, !.arg = rating]
  /\ UNCHANGED <<users, sessions, bookings, nextBookingId, dbVars,
                 favorites, nextFavoriteId, regVars, envVars>>

\* ---------------------------------------------------------------- favorites

MaxFavorites == 2       \* rows the favorites table may hold

\* request bodies: a missing itemType is ""
FavTypeArgs == {"", "hotel", "destination"}
FavItemArgs == {"Taj Resort", "taj resort"}

\* item_name VARCHAR under the default case-insensitive collation
FoldItem(n) == IF n = "taj resort" THEN "Taj Resort" ELSE n

FavoriteDuplicateNever(userId, itemType, itemName) == FALSE
\* UNIQUE KEY unique_favorite (user_id, item_type, item_name)
FavoriteDuplicate(userId, itemType, itemName) ==
  \E f \in DOMAIN favorites :
     /\ favorites[f].user_id = userId
     /\ favorites[f].item_type = itemType
     /\ FoldItem(favorites[f].item_name) = FoldItem(itemName)

\* POST /api/favorites
AddFavorite(s, itemType, itemName) ==
  /\ IF ~requireAuth(s)
     THEN /\ res' = [Resp("addFavorite", s, 0, 401, 0, 0)
                        EXCEPT !.item = <<itemType, itemName>>]
          /\ UNCHANGED <<favorites, nextFavoriteId>>
     ELSE LET userId == Val(sessions[s].userId) IN
          IF FavoriteDuplicate(userId, itemType, itemName)
          THEN /\ res' = [Resp("addFavorite", s, 0, 409, 0, 0)
                        EXCEPT !.item = <<itemType, itemName>>]
               /\ UNCHANGED <<favorites, nextFavoriteId>>
          ELSE IF itemType = "" \/ userId \notin DOMAIN users
          THEN /\ res' = [Resp("addFavorite", s, 0, 500, 0, 0)
                        EXCEPT !.item = <<itemType, itemName>>]
               /\ UNCHANGED <<favorites, nextFavoriteId>>
          ELSE /\ nextFavoriteId <= MaxFavorites
               /\ favorites' = favorites @@ (nextFavoriteId :>
                     [user_id |-> userId, item_type |-> itemType, item_name |-> itemName])
               /\ nextFavoriteId' = nextFavoriteId + 1
               /\ res' = [Resp("addFavorite", s, 0, 200, 1, 1)
                             EXCEPT !.item = <<itemType, itemName>>]
  /\ UNCHANGED <<users, sessions, bookings, nextBookingId, dbVars,
                 reviews, nextReviewId, regVars, envVars>>

\* -------------------------------------------------------------------- admin

requireAdminFromStore(s) ==
  /\ sessions[s].userId # Null
  /\ Val(sessions[s].userId) \in DOMAIN users
  /\ users[Val(sessions[s].userId)].is_admin
requireAdminOrHardcoded(s) ==
  \/ sessions[s].userId # Null /\ sessions[s].isAdmin
  \/ sessions[s].admin
\* function requireAdmin: passes iff the session has a userId and isAdmin
requireAdmin(s) == sessions[s].userId # Null /\ sessions[s].isAdmin

\* SUM(price) over a set of bookings rows
RECURSIVE SumPrice(_)
SumPrice(rows) ==
  IF rows = {} THEN 0
  ELSE LET b == CHOOSE x \in rows : TRUE
       IN  bookings[b].price + SumPrice(rows \ {b})

RevenueRowsAll == DOMAIN bookings
\* FROM bookings WHERE status = "confirmed"
RevenueRows == {b \in DOMAIN bookings : bookings[b].status = "confirmed"}

\* GET /api/admin/stats; SUM over no row is NULL, reported as 0
AdminStats(s) ==
  /\ IF ~requireAdmin(s)
     THEN res' = Resp("stats", s, 0, 403, 0, 0)
     ELSE res' = [Resp("stats", s, 0, 200, 0, 0) EXCEPT !.stats =
                    [totalUsers |-> Cardinality(DOMAIN users),
                     totalBookings |-> Cardinality(DOMAIN bookings),
                     totalRevenue |-> IF RevenueRows = {} THEN 0
                                      ELSE SumPrice(RevenueRows)]]
  /\ UNCHANGED <<users, sessions, bookings, nextBookingId, dbVars,
                 attVars, regVars, envVars>>

\* the :id path parameter of DELETE /api/admin/users/:id, as sent
UserIdParams == {"1", "2", "3", "10e-1"}

\* parseInt(req.params.id): the leading run of decimal digits
ParseInt(p) ==
  CASE p = "1" -> 1 [] p = "2" -> 2 [] p = "3" -> 3 [] p = "10e-1" -> 10

\* WHERE id = ? with a string parameter: MySQL converts the string to a
\* number, exponent included, before comparing it with the INT column
SqlNumber(p) ==
  CASE p = "1" -> 1 [] p = "2" -> 2 [] p = "3" -> 3 [] p = "10e-1" -> 1

UserFkNoCascade(rows, keptUsers) == DOMAIN rows
\* FOREIGN KEY (user_id) REFERENCES users(id) ON DELETE CASCADE: the rows of a
\* child table that remain when only keptUsers remain
UserFk(rows, keptUsers) == {r \in DOMAIN rows : rows[r].user_id \in keptUsers}

\* FOREIGN KEY (booking_id) REFERENCES bookings(id) ON DELETE CASCADE
BookingFk(rows, keptBookings) ==
  {r \in DOMAIN rows : rows[r].booking_id \in keptBookings}

\* DELETE /api/admin/users/:id; the foreign keys of bookings, reviews and
\* favorites are ON DELETE CASCADE
DeleteUser(s, p) ==
  /\ IF ~requireAdmin(s)
     THEN /\ res' = [Resp("deleteUser", s, 0, 403, 0, 0) EXCEPT !.param = p]
          /\ UNCHANGED <<users, bookings, reviews, favorites>>
     ELSE IF ParseInt(p) = Val(sessions[s].userId)
     THEN /\ res' = [Resp("deleteUser", s, 0, 400, 0, 0) EXCEPT !.param = p]
          /\ UNCHANGED <<users, bookings, reviews, favorites>>
     ELSE LET keptUsers == {u \in DOMAIN users : u # SqlNumber(p)}
              keptBookings == UserFk(bookings, keptUsers)
              keptReviews == UserFk(reviews, keptUsers) \cap BookingFk(reviews, keptBookings)
              keptFavorites == UserFk(favorites, keptUsers)
          IN /\ users' = [u \in keptUsers |-> users[u]]
             /\ bookings' = [b \in keptBookings |-> bookings[b]]
             /\ reviews' = [r \in keptReviews |-> reviews[r]]
             /\ favorites' = [f \in keptFavorites |-> favorites[f]]
             /\ res' = [Resp("deleteUser", s, 0, 200,
                             Cardinality(DOMAIN users \ keptUsers),
                             Cardinality(DOMAIN users \ keptUsers)) EXCEPT !.param = p]
  /\ UNCHANGED <<sessions, nextBookingId, dbVars, nextReviewId, nextFavoriteId,
                 regVars, envVars>>

\* request bodies of PATCH /api/admin/users/:id: a flag is omitted, true or
\* false
FlagArgs == {Null, Some(TRUE), Some(FALSE)}

OrTrue(flag) == flag = Null \/ Val(flag)
\* isAdmin || false
OrFalse(flag) == flag # Null /\ Val(flag)

\* PATCH /api/admin/users/:id; updated_at is ON UPDATE CURRENT_TIMESTAMP, which
\* MySQL sets when the UPDATE changes a column of the row
UpdateUser(s, p, isAdmin, isStudent) ==
  /\ IF ~requireAdmin(s)
     THEN /\ res' = [Resp("updateUser", s, 0, 403, 0, 0)
                        EXCEPT !.param = p, !.flags = <<isAdmin, isStudent>>]
          /\ users' = users
     ELSE LET matched == {u \in DOMAIN users : u = SqlNumber(p)}
              changed == {u \in matched :
                            \/ users[u].is_admin # OrFalse(isAdmin)
                            \/ users[u].is_student # OrFalse(isStudent)}
          IN /\ users' = [u \in DOMAIN users |->
                           IF u \in matched
                           THEN [users[u] EXCEPT
                                   !.is_admin = OrFalse(isAdmin),
                                   !.is_student = OrFalse(isStudent),
                                   !.updated_at = IF u \in changed THEN today ELSE @]
                           ELSE users[u]]
             /\ res' = [Resp("updateUser", s, 0, 200,
                             Cardinality(matched), Cardinality(changed))
                           EXCEPT !.param = p, !.flags = <<isAdmin, isStudent>>]
  /\ UNCHANGED <<sessions, bookings, nextBookingId, dbVars, attVars, regVars, envVars>>

\* request bodies of the hardcoded admin login
AdminNameArgs == {"admin", "root"}
AdminPasswordArgs == {"admin123", "admin"}

\* POST /admin-login (server.js): answers success or not, touches no session
AdminLogin(s, username, password) ==
  /\ res' = [Resp("adminLogin", s, 0, 200, 0, 0) EXCEPT
               !.success = (username = "admin" /\ password = "admin123")]
  /\ UNCHANGED <<users, sessions, bookings, nextBookingId, dbVars, attVars,
                 regVars, envVars>>

\* POST /api/admin-login (part_000): req.session.admin = true
LegacyAdminLogin(s, username, password) ==
  /\ IF username = "admin" /\ password = "admin123"
     THEN /\ sessions' = [sessions EXCEPT ![s].admin = TRUE]
          /\ res' = LegacyReply("legacyAdminLogin", s, TRUE, "")
     ELSE /\ sessions' = sessions
          /\ res' = LegacyReply("legacyAdminLogin", s, FALSE, "Invalid admin credentials")
  /\ UNCHANGED <<users, bookings, nextBookingId, dbVars, attVars, regVars, envVars>>

\* ------------------------------------------------------------- registration

MaxUsers == 4           \* highest users.id the model hands out

RegIds == {1, 2}        \* registration requests that may be in flight together
\* request bodies: a missing email is "", a missing dob is NULL
EmailArgs == {"", "New@x.com", "new@x.com"}
DobArgs == {Null, Some(<<2008, 3, 1>>), Some(<<2008, 3, 2>>)}

\* String.prototype.toLowerCase, and the case-insensitive collation of
\* users.email
LowerEmail(e) == IF e = "New@x.com" THEN "new@x.com" ELSE e

IsLeap(y) == (y % 4 = 0 /\ y % 100 # 0) \/ y % 400 = 0
DaysIn(y, m) ==
  IF m = 2 THEN (IF IsLeap(y) THEN 29 ELSE 28)
  ELSE IF m \in {4, 6, 9, 11} THEN 30 ELSE 31
PrevDay(d) ==
  IF d[3] > 1 THEN <<d[1], d[2], d[3] - 1>>
  ELSE IF d[2] > 1 THEN <<d[1], d[2] - 1, DaysIn(d[1], d[2] - 1)>>
  ELSE <<d[1] - 1, 12, 31>>

\* new Date(dob) is midnight UTC of the day written in dob; getFullYear,
\* getMonth and getDate read it in the server's zone, where it is still the
\* day before when the zone is behind UTC
BirthDate(dob) == IF tzWest THEN PrevDay(dob) ELSE dob

\* let age = ...; if (monthDiff < 0 || (monthDiff === 0 && ...)) age--
Age(dob) ==
  LET birthDate == BirthDate(dob)
      age == now[1] - birthDate[1]
      monthDiff == now[2] - birthDate[2]
  IN IF monthDiff < 0 \/ (monthDiff = 0 /\ now[3] < birthDate[3])
     THEN age - 1 ELSE age

\* SELECT id FROM users WHERE email = ?, and the UNIQUE index on email
EmailExists(email) ==
  \E u \in DOMAIN users : LowerEmail(users[u].email) = LowerEmail(email)

IdleReg == [pc |-> "idle", email |-> "", dob |-> Null]

RegResp(op, code, email, dob) ==
  [Resp(op, 0, 0, code, 0, 0) EXCEPT !.param = email, !.dob = dob]
LegacyRegReply(success, error, email, dob) ==
  [LegacyReply("legacyRegister", 0, success, error) EXCEPT !.param = email, !.dob = dob]

\* POST /api/register (server.js), up to the await of bcrypt.hash
RegisterCheck(q, email, dob) ==
  /\ regs[q].pc = "idle"
  /\ IF email = ""
     THEN res' = RegResp("register", 400, email, dob) /\ regs' = regs
     ELSE IF EmailExists(LowerEmail(email))
     THEN res' = RegResp("register", 409, email, dob) /\ regs' = regs
     ELSE /\ regs' = [regs EXCEPT ![q] =
                 [pc |-> "hashing", email |-> LowerEmail(email), dob |-> dob]]
          /\ res' = res
  /\ UNCHANGED <<users, nextUserId, sessions, bookings, nextBookingId, dbVars,
                 attVars, envVars>>

\* POST /api/register (server.js), the INSERT and the response
RegisterInsert(q) ==
  /\ regs[q].pc = "hashing"
  /\ regs' = [regs EXCEPT ![q] = IdleReg]
  /\ IF EmailExists(regs[q].email)
     THEN /\ res' = RegResp("register", 500, regs[q].email, regs[q].dob)
          /\ UNCHANGED <<users, nextUserId>>
     ELSE /\ nextUserId <= MaxUsers
          /\ users' = users @@ (nextUserId :>
                [email |-> regs[q].email, is_admin |-> FALSE, is_student |-> FALSE,
                 dob |-> regs[q].dob, updated_at |-> today])
          /\ nextUserId' = nextUserId + 1
          /\ res' = RegResp("register", 200, regs[q].email, regs[q].dob)
  /\ UNCHANGED <<sessions, bookings, nextBookingId, dbVars, attVars, envVars>>

\* POST /api/register (part_000), up to the await of bcrypt.hash
LegacyRegisterCheck(q, email, dob) ==
  /\ regs[q].pc = "idle"
  /\ IF email = "" \/ dob = Null
     THEN /\ res' = LegacyRegReply(FALSE, "All fields are required.", email, dob)
          /\ regs' = regs
     ELSE IF Age(Val(dob)) < 18
     THEN /\ res' = LegacyRegReply(FALSE, "You must be at least 18 years old.", email, dob)
          /\ regs' = regs
     ELSE IF EmailExists(email)
     THEN /\ res' = LegacyRegReply(FALSE, "Email already registered.", email, dob)
          /\ regs' = regs
     ELSE /\ regs' = [regs EXCEPT ![q] =
                 [pc |-> "legacyHashing", email |-> email, dob |-> dob]]
          /\ res' = res
  /\ UNCHANGED <<users, nextUserId, sessions, bookings, nextBookingId, dbVars,
                 attVars, envVars>>

\* POST /api/register (part_000), the INSERT and the response
LegacyRegisterInsert(q) ==
  /\ regs[q].pc = "legacyHashing"
  /\ regs' = [regs EXCEPT ![q] = IdleReg]
  /\ IF EmailExists(regs[q].email)
     THEN /\ res' = LegacyRegReply(FALSE, "Server error during registration.",
                                   regs[q].email, regs[q].dob)
          /\ UNCHANGED <<users, nextUserId>>
     ELSE /\ nextUserId <= MaxUsers
          /\ users' = users @@ (nextUserId :>
                [email |-> regs[q].email, is_admin |-> FALSE, is_student |-> FALSE,
                 dob |-> regs[q].dob, updated_at |-> today])
          /\ nextUserId' = nextUserId + 1
          /\ res' = LegacyRegReply(TRUE, "", regs[q].email, regs[q].dob)
  /\ UNCHANGED <<sessions, bookings, nextBookingId, dbVars, attVars, envVars>>

\* ---------------------------------------------------------- specifications

\* the server, with the stored procedure never called (no handler calls it)
Init ==
  /\ InitServer
  /\ promo_codes = {} /\ today = 1 /\ calls = <<>>

Next == NextServer

Spec == Init /\ [][Next]_vars

\* one connection calling apply_discount against any promo_codes content
InitDiscount ==
  /\ InitDiscountRows
  /\ calls = [c \in {1} |-> IdleCall]
  /\ users = SeedUsers /\ sessions = [s \in SessionIds |-> NoSession]
  /\ bookings = <<>> /\ nextBookingId = 1
  /\ res = Resp("none", 0, 0, 0, 0, 0)
  /\ InitRest

SpecDiscount == InitDiscount /\ [][NextDiscount]_vars

\* two connections redeeming the same single-use promo code concurrently
InitRedeem ==
  /\ promo_codes \in {{r} : r \in {q \in PromoRows :
        /\ q.max_uses = Some(1) /\ q.current_uses = 0 /\ q.is_active
        /\ q.valid_from = 1 /\ q.valid_until = MaxDate}}
  /\ today = 1
  /\ calls = [c \in {1, 2} |-> IdleCall]
  /\ users = SeedUsers /\ sessions = [s \in SessionIds |-> NoSession]
  /\ bookings = <<>> /\ nextBookingId = 1
  /\ res = Resp("none", 0, 0, 0, 0, 0)
  /\ InitRest

SpecRedeem == InitRedeem /\ [][NextDiscount]_vars

\* the review endpoints of both servers over seeded bookings, against a MySQL
\* that enforces CHECK constraints or one that parses and ignores them
InitReview ==
  /\ users = SeedUsers
  /\ sessions = [s \in SessionIds |-> NoSession]
  /\ \E n \in 0..MaxSeed : /\ bookings \in [1..n -> SeedBookingRows]
                           /\ nextBookingId = n + 1
  /\ res = Resp("none", 0, 0, 0, 0, 0)
  /\ reviews = <<>> /\ nextReviewId = 1
  /\ favorites = <<>> /\ nextFavoriteId = 1
  /\ nextUserId = 3 /\ regs = <<>>
  /\ now = <<2026, 11, 2>> /\ tzWest = FALSE /\ checkEnforced \in BOOLEAN
  /\ promo_codes = {} /\ today = 1 /\ calls = <<>>

NextReview ==
  \/ \E s \in SessionIds, u \in UserIds \cup {0}, valid \in BOOLEAN : Login(s, u, valid)
  \/ \E s \in SessionIds : Logout(s)
  \/ \E s \in SessionIds, b \in BookingIdArgs, r \in RatingArgs : AddReview(s, b, r)
  \/ \E s \in SessionIds, b \in BookingIdArgs, r \in RatingArgs : Review(s, b, r)

SpecReview == InitReview /\ [][NextReview]_vars

\* the favorites endpoint
InitFavorite ==
  /\ users = SeedUsers
  /\ sessions = [s \in SessionIds |-> NoSession]
  /\ bookings = <<>> /\ nextBookingId = 1
  /\ res = Resp("none", 0, 0, 0, 0, 0)
  /\ InitRest
  /\ promo_codes = {} /\ today = 1 /\ calls = <<>>

NextFavorite ==
  \/ \E s \in SessionIds, u \in UserIds \cup {0}, valid \in BOOLEAN : Login(s, u, valid)
  \/ \E s \in SessionIds : Logout(s)
  \/ \E s \in SessionIds, t \in FavTypeArgs, n \in FavItemArgs : AddFavorite(s, t, n)

SpecFavorite == InitFavorite /\ [][NextFavorite]_vars

\* every mutating endpoint of both servers, called by clients that never log
\* in, over a store that already holds bookings
NextGuard ==
  \/ \E s \in SessionIds : Logout(s)
  \/ \E s \in SessionIds, type \in TypeArgs, itemName \in ItemArgs, price \in PriceArgs :
        CreateBooking(s, type, itemName, price)
  \/ \E s \in SessionIds, type \in TypeArgs, itemName \in ItemArgs, price \in PriceArgs :
        Book(s, type, itemName, price)
  \/ \E s \in SessionIds, id \in BookingIds : CancelBooking(s, id)
  \/ \E s \in SessionIds, b \in BookingIdArgs, r \in RatingArgs : AddReview(s, b, r)
  \/ \E s \in SessionIds, b \in BookingIdArgs, r \in RatingArgs : Review(s, b, r)
  \/ \E s \in SessionIds, t \in FavTypeArgs, n \in FavItemArgs : AddFavorite(s, t, n)

SpecGuard == Init /\ [][NextGuard]_vars

\* bookings created and cancelled, and the admin's statistics
NextStats ==
  \/ \E s \in SessionIds, u \in UserIds \cup {0}, valid \in BOOLEAN : Login(s, u, valid)
  \/ \E s \in SessionIds : Logout(s)
  \/ \E s \in SessionIds, type \in TypeArgs, itemName \in ItemArgs, price \in PriceArgs :
        CreateBooking(s, type, itemName, price)
  \/ \E s \in SessionIds, id \in BookingIds : CancelBooking(s, id)
  \/ \E s \in SessionIds : AdminStats(s)

SpecStats == Init /\ [][NextStats]_vars

\* the admin's user deletion over seeded users and bookings
NextAdmin ==
  \/ \E s \in SessionIds, u \in UserIds \cup {0}, valid \in BOOLEAN : Login(s, u, valid)
  \/ \E s \in SessionIds : Logout(s)
  \/ \E s \in SessionIds, p \in UserIdParams : DeleteUser(s, p)

SpecAdmin == Init /\ [][NextAdmin]_vars

\* registrations at both servers, two of them possibly in flight together,
\* on 2026-03-01 in a zone at or behind UTC
InitRegister ==
  /\ users = SeedUsers
  /\ sessions = [s \in SessionIds |-> NoSession]
  /\ bookings = <<>> /\ nextBookingId = 1
  /\ res = Resp("none", 0, 0, 0, 0, 0)
  /\ reviews = <<>> /\ nextReviewId = 1
  /\ favorites = <<>> /\ nextFavoriteId = 1
  /\ nextUserId = 3 /\ regs = [q \in RegIds |-> IdleReg]
  /\ now = <<2026, 3, 1>> /\ tzWest \in BOOLEAN /\ checkEnforced = TRUE
  /\ promo_codes = {} /\ today = 1 /\ calls = <<>>

NextRegister ==
  \/ \E q \in RegIds, e \in EmailArgs, d \in DobArgs : RegisterCheck(q, e, d)
  \/ \E q \in RegIds : RegisterInsert(q)
  \/ \E q \in RegIds, e \in EmailArgs, d \in DobArgs : LegacyRegisterCheck(q, e, d)
  \/ \E q \in RegIds : LegacyRegisterInsert(q)

SpecRegister == InitRegister /\ [][NextRegister]_vars

\* users creating bookings, reviews and favorites while an admin deletes users
InitCascade ==
  /\ users = SeedUsers
  /\ sessions = [s \in SessionIds |-> NoSession]
  /\ bookings = <<>> /\ nextBookingId = 1
  /\ res = Resp("none", 0, 0, 0, 0, 0)
  /\ InitRest
  /\ promo_codes = {} /\ today = 1 /\ calls = <<>>

NextCascade ==
  \/ \E s \in SessionIds, u \in UserIds : Login(s, u, TRUE)
  \/ \E s \in SessionIds : Logout(s)
  \/ \E s \in SessionIds : CreateBooking(s, "flight", "Taj Resort", 2500)
  \/ \E s \in SessionIds, b \in BookingIds : AddReview(s, b, 5)
  \/ \E s \in SessionIds, b \in BookingIds : Review(s, b, 5)
  \/ \E s \in SessionIds : AddFavorite(s, "hotel", "Taj Resort")
  \/ \E s \in SessionIds, p \in {"2", "10e-1"} : DeleteUser(s, p)

SpecCascade == InitCascade /\ [][NextCascade]_vars

\* every operation of the two servers that writes bookings, from an empty
\* bookings table
NextLifecycle ==
  \/ \E s \in SessionIds, u \in UserIds : Login(s, u, TRUE)
  \/ \E s \in SessionIds : Logout(s)
  \/ \E s \in SessionIds, type \in TypeArgs, itemName \in ItemArgs, price \in PriceArgs :
        CreateBooking(s, type, itemName, price)
  \/ \E s \in SessionIds, type \in TypeArgs, itemName \in ItemArgs, price \in PriceArgs :
        Book(s, type, itemName, price)
  \/ \E s \in SessionIds, id \in BookingIds : CancelBooking(s, id)
  \/ \E s \in SessionIds, p \in UserIdParams : DeleteUser(s, p)

SpecLifecycle == InitCascade /\ [][NextLifecycle]_vars

\* two browser sessions: logins, the hardcoded admin logins, role changes and
\* an admin route
RoleSessionIds == {1, 2}

InitRoles ==
  /\ users = SeedUsers
  /\ sessions = [s \in RoleSessionIds |-> NoSession]
  /\ bookings = <<>> /\ nextBookingId = 1
  /\ res = Resp("none", 0, 0, 0, 0, 0)
  /\ InitRest
  /\ promo_codes = {} /\ today = 1 /\ calls = <<>>

NextRoles ==
  \/ \E s \in RoleSessionIds, u \in UserIds : Login(s, u, TRUE)
  \/ \E s \in RoleSessionIds : Logout(s)
  \/ \E s \in RoleSessionIds, p \in {"1", "2"}, isAdmin \in FlagArgs :
        UpdateUser(s, p, isAdmin, Null)
  \/ \E s \in RoleSessionIds : AdminStats(s)
  \/ \E s \in RoleSessionIds, username \in AdminNameArgs, password \in AdminPasswordArgs :
        AdminLogin(s, username, password)
  \/ \E s \in RoleSessionIds, username \in AdminNameArgs, password \in AdminPasswordArgs :
        LegacyAdminLogin(s, username, password)

SpecRoles == InitRoles /\ [][NextRoles]_vars

\* role changes by one admin client over stored bookings, reviews and
\* favorites, on a day after the seed rows were stored
InitUpdate ==
  /\ users = SeedUsers
  /\ sessions = [s \in SessionIds |-> NoSession]
  /\ \E n \in 0..MaxSeed :
        /\ bookings \in [1..n -> {r \in SeedBookingRows : r.status = "confirmed"}]
        /\ nextBookingId = n + 1
  /\ res = Resp("none", 0, 0, 0, 0, 0)
  /\ InitRest
  /\ promo_codes = {} /\ today = 2 /\ calls = <<>>

NextUpdate ==
  \/ \E u \in UserIds : Login(1, u, TRUE)
  \/ Logout(1)
  \/ \E b \in BookingIds : AddReview(1, b, 5)
  \/ AddFavorite(1, "hotel", "Taj Resort")
  \/ \E p \in {"1", "2"}, isAdmin \in FlagArgs, isStudent \in FlagArgs :
        UpdateUser(1, p, isAdmin, isStudent)

SpecUpdate == InitUpdate /\ [][NextUpdate]_vars

\* booking creation at both servers
NextBooking ==
  \/ \E s \in SessionIds, u \in UserIds \cup {0}, valid \in BOOLEAN : Login(s, u, valid)
  \/ \E s \in SessionIds : Logout(s)
  \/ \E s \in SessionIds, type \in TypeArgs, itemName \in ItemArgs, price \in PriceArgs :
        CreateBooking(s, type, itemName, price)
  \/ \E s \in SessionIds, type \in TypeArgs, itemName \in ItemArgs, price \in PriceArgs :
        Book(s, type, itemName, price)

SpecBooking == Init /\ [][NextBooking]_vars

\* ------------------------------------------------------------------ claims

Done == {calls[c] : c \in {d \in DOMAIN calls : calls[d].pc = "done"}}
NoPromoArg(k) == k.promo_code = Null \/ k.promo_code = Some("")

\* connections whose call selected the row of code, i.e. obtained its discount
Obtained(code) ==
  {c \in DOMAIN calls : /\ calls[c].pc # "idle"
                        /\ ~NoPromoArg(calls[c])
                        /\ CodeEq(Val(calls[c].promo_code), code)
                        /\ calls[c].promo_type # Null}

\* C1: two concurrent redemptions of a promo code with max_uses = 1 and
\* current_uses = 0: the code is never obtained by more calls than max_uses
\* allows, and once both calls have run exactly one of them has obtained it.
C1_AtMostMaxUsesRedeem ==
  \A r \in promo_codes :
     r.max_uses # Null =>
        /\ r.current_uses + Cardinality(Obtained(r.code)) <= Val(r.max_uses)
        /\ (\A c \in DOMAIN calls :
               /\ calls[c].pc = "done"
               /\ ~NoPromoArg(calls[c])
               /\ CodeEq(Val(calls[c].promo_code), r.code))
           => Cardinality(Obtained(r.code)) = 1

\* the condition of the claim, spelled out on the stored rows
ClaimedValid(code) ==
  \E r \in promo_codes :
     /\ CodeEq(r.code, code)
     /\ r.is_active
     /\ r.valid_from <= today /\ today <= r.valid_until
     /\ (r.max_uses = Null \/ r.current_uses < Val(r.max_uses))

\* C2: a supplied promo code contributes its row's discount if and only if a
\* row with that code exists, is active, today lies in [valid_from,
\* valid_until] (both ends included) and max_uses is NULL or current_uses <
\* max_uses; otherwise it contributes 0 and the outputs are those of the same
\* call without a promo code.
C2_PromoContributesIffValid ==
  \A k \in Done :
     ~NoPromoArg(k) =>
        LET ok == ClaimedValid(Val(k.promo_code))
            plain == IF k.is_student THEN RoundCents(k.booking_price, 10) ELSE 0
        IN /\ (k.promo_type # Null) <=> ok
           /\ ok => \E r \in promo_codes :
                      /\ k.promo_type = Some(r.discount_type)
                      /\ k.promo_value = Some(r.discount_value)
           /\ ~ok => /\ k.promo_discount = 0
                     /\ k.discount_applied = Some(plain)
                     /\ k.final_price = Some(k.booking_price - plain)

C2_Witness ==
  \E k \in Done : \E r \in promo_codes :
     /\ k.promo_code = Some(r.code)
     /\ r.is_active /\ today = r.valid_until /\ r.valid_from < today
     /\ r.max_uses # Null /\ r.current_uses < Val(r.max_uses)
     /\ k.promo_type = Some(r.discount_type)
     /\ k.promo_discount > 0

C4_FixedPromo ==
  \A k \in Done :
     k.promo_type = Some("fixed") =>
        LET P == k.booking_price
            F == Val(k.promo_value)
            D == Val(k.discount_applied)
        IN /\ D = k.student_discount + F
           /\ ~k.is_student => D = F
           /\ Val(k.final_price) >= 0
           /\ Val(k.final_price) = (IF P - D > 0 THEN P - D ELSE 0)

C4_Witness ==
  \E k \in Done :
     /\ k.promo_type = Some("fixed") /\ k.is_student
     /\ Val(k.promo_value) > k.booking_price
     /\ k.student_discount > 0
     /\ k.final_price = Some(0)

\* C5 as stated: student, no promo code: discount_applied = 0.10*P exactly and
\* final_price = 0.90*P exactly.
C5_ExactStudentDiscount ==
  \A k \in Done :
     k.is_student /\ NoPromoArg(k) =>
        /\ 10 * Val(k.discount_applied) = k.booking_price
        /\ 10 * Val(k.final_price) = 9 * k.booking_price

\* C5 amended: student, no promo code: discount_applied is 0.10*P rounded
\* half up to a cent (so exactly 0.10*P when P is a multiple of 0.10) and
\* final_price = P - discount_applied.
C5_RoundedStudentDiscount ==
  \A k \in Done :
     k.is_student /\ NoPromoArg(k) =>
        LET P == k.booking_price
            D == Val(k.discount_applied)
        IN /\ P - 5 < 10 * D /\ 10 * D <= P + 5
           /\ Val(k.final_price) = P - D
           /\ P % 10 = 0 => 10 * D = P /\ 10 * Val(k.final_price) = 9 * P

C5_Witness ==
  \E k \in Done :
     /\ k.is_student /\ NoPromoArg(k)
     /\ k.booking_price % 10 = 5
     /\ 10 * Val(k.discount_applied) = k.booking_price + 5

\* C6: not a student, no promo code (NULL or ''): final_price = P and
\* discount_applied = 0.
C6_NoDiscount ==
  \A k \in Done :
     ~k.is_student /\ NoPromoArg(k) =>
        /\ k.final_price = Some(k.booking_price)
        /\ k.discount_applied = Some(0)

C6_Witness ==
  \E k \in Done :
     /\ ~k.is_student /\ k.promo_code = Some("")
     /\ promo_codes # {}
     /\ k.final_price = Some(k.booking_price)

\* the step is a cancel request of session s for booking id b
IsCancel(s, b) == res'.op = "cancel" /\ res'.sid = s /\ res'.id = b
Owns(s, b) == b \in DOMAIN bookings /\ sessions[s].userId = Some(bookings[b].user_id)

\* C7: the owner's cancel of a confirmed booking makes it cancelled and
\* succeeds; the owner's cancel of an already cancelled booking succeeds too
\* and changes no booking.
C7_CancelTwice ==
  [][\A s \in SessionIds, b \in BookingIds :
       IsCancel(s, b) /\ Owns(s, b) =>
          /\ bookings[b].status = "confirmed" =>
                bookings'[b].status = "cancelled" /\ res'.code = 200
          /\ bookings[b].status = "cancelled" =>
                res'.code = 200 /\ bookings' = bookings]_vars

C7_Witness ==
  /\ res.op = "cancel" /\ res.code = 200
  /\ res.affectedRows = 1 /\ res.changedRows = 0
  /\ res.id \in DOMAIN bookings
  /\ bookings[res.id].status = "cancelled"
  /\ sessions[res.sid].userId = Some(bookings[res.id].user_id)

\* C8: a cancel request of a logged-in session succeeds exactly when the
\* booking exists and the caller is its owner or carries the admin capability.
C8_OwnerOrAdminCancels ==
  [][\A s \in SessionIds, b \in BookingIds :
       IsCancel(s, b) /\ requireAuth(s) =>
          (res'.code = 200 <=>
              /\ b \in DOMAIN bookings
              /\ (Owns(s, b) \/ sessions[s].isAdmin))]_vars

\* C9: a cancel request of a logged-in non-admin session for a booking that
\* does not exist or belongs to another user answers 404 and changes no
\* booking.
C9_CancelNotOwned ==
  [][\A s \in SessionIds, b \in BookingIds :
       IsCancel(s, b) /\ requireAuth(s) /\ ~sessions[s].isAdmin /\ ~Owns(s, b) =>
          res'.code = 404 /\ bookings' = bookings]_vars

C9_Witness ==
  /\ res.op = "cancel" /\ res.code = 404
  /\ requireAuth(res.sid) /\ ~sessions[res.sid].isAdmin
  /\ res.id \in DOMAIN bookings
  /\ sessions[res.sid].userId # Some(bookings[res.id].user_id)
  /\ bookings[res.id].status = "confirmed"

\* C10: a cancel request never moves a completed booking to cancelled.
C10_CompletedNeverCancelled ==
  [][\A b \in DOMAIN bookings :
       res'.op = "cancel" /\ bookings[b].status = "completed" =>
          bookings'[b].status # "cancelled"]_vars

\* C11: every stored review references a booking that exists and whose owner
\* is the review's own user.
C11_ReviewOwnBooking ==
  \A r \in DOMAIN reviews :
     /\ reviews[r].booking_id \in DOMAIN bookings
     /\ bookings[reviews[r].booking_id].user_id = reviews[r].user_id

\* C12: a POST /api/reviews of a logged-in session whose rating is not an
\* integer in 1..5 is answered with a client (4xx) error and stores no review.
C12_RatingValidated ==
  [][res'.op = "addReview" /\ requireAuth(res'.sid) /\ ~(res'.arg \in 1..5) =>
        /\ res'.code \in 400..499
        /\ reviews' = reviews]_vars

\* row f is a favorite of user u for item type t and item name n
SameFavorite(f, u, t, n) ==
  /\ favorites[f].user_id = u
  /\ favorites[f].item_type = t
  /\ favorites[f].item_name = n

\* C13: a POST /api/favorites whose (user, item type, item name) is already
\* stored for that user is answered 409 and leaves the favorites table as it
\* is; and after every step no two rows share (user, item type, item name).
C13_FavoriteConflict ==
  [][/\ \A f \in DOMAIN favorites :
          /\ res'.op = "addFavorite"
          /\ requireAuth(res'.sid)
          /\ SameFavorite(f, Val(sessions[res'.sid].userId), res'.item[1], res'.item[2])
          => res'.code = 409 /\ favorites' = favorites
     /\ \A f, g \in DOMAIN favorites' :
          /\ favorites'[f].user_id = favorites'[g].user_id
          /\ favorites'[f].item_type = favorites'[g].item_type
          /\ favorites'[f].item_name = favorites'[g].item_name
          => f = g]_vars

C13_Witness ==
  /\ res.op = "addFavorite" /\ res.code = 409
  /\ requireAuth(res.sid)
  /\ \E f \in DOMAIN favorites :
        SameFavorite(f, Val(sessions[res.sid].userId), res.item[1], res.item[2])

MutatingOps == {"createBooking", "book", "cancel", "addReview", "review", "addFavorite"}

\* the response tells the caller that it is not logged in
Unauthenticated(r) ==
  \/ r.code = 401
  \/ ~r.success /\ r.error = "Please login first."

\* C14: a create-booking, cancel, add-review or add-favorite request, at any
\* endpoint of either server, from a session with no identity is rejected as
\* unauthenticated and leaves bookings, reviews and favorites as they are.
C14_MutationsNeedSession ==
  [][res'.op \in MutatingOps /\ sessions[res'.sid].userId = Null =>
        /\ Unauthenticated(res')
        /\ ~res'.success
        /\ bookings' = bookings /\ reviews' = reviews /\ favorites' = favorites]_vars

C14_Witness ==
  /\ res.op = "book" /\ sessions[res.sid].userId = Null
  /\ Unauthenticated(res)
  /\ bookings # <<>>

\* C16: a successful booking creation stores exactly one new booking, owned
\* by the session's user and with status confirmed, and its response carries
\* the generated identifier of that booking.
C16_CreateReturnsId ==
  [][res'.op \in {"createBooking", "book"} /\ res'.success =>
        /\ DOMAIN bookings' = DOMAIN bookings \cup {nextBookingId}
        /\ nextBookingId \notin DOMAIN bookings
        /\ \A b \in DOMAIN bookings : bookings'[b] = bookings[b]
        /\ sessions[res'.sid].userId = Some(bookings'[nextBookingId].user_id)
        /\ bookings'[nextBookingId].status = "confirmed"
        /\ res'.id = nextBookingId]_vars

\* C15: an /api/admin/* request is answered Unauthenticated (401) when the
\* request has no session identity and Forbidden (403) when it has one that
\* lacks the admin role.
C15_AdminGuardOutcomes ==
  [][res'.op = "stats" =>
        /\ sessions[res'.sid].userId = Null => res'.code = 401
        /\ sessions[res'.sid].userId # Null /\ ~sessions[res'.sid].isAdmin
              => res'.code = 403]_vars

\* C17: the statistics report as totalRevenue the sum of price over the
\* bookings whose status is confirmed (0 when there is none) and as
\* totalBookings the number of all bookings.
C17_RevenueOfConfirmed ==
  res.op = "stats" /\ res.code = 200 =>
     /\ res.stats.totalRevenue =
           SumPrice({b \in DOMAIN bookings : bookings[b].status = "confirmed"})
     /\ res.stats.totalBookings = Cardinality(DOMAIN bookings)

C17_Witness ==
  /\ res.op = "stats" /\ res.code = 200
  /\ \E b, c \in DOMAIN bookings :
        /\ bookings[b].status = "confirmed"
        /\ bookings[c].status = "cancelled" /\ bookings[c].price # bookings[b].price
  /\ res.stats.totalRevenue > 0
  /\ res.stats.totalBookings >= 2

\* C20: an admin's DELETE /api/admin/users/:id whose id names the admin's own
\* users row is answered with an error and deletes nothing; the user of the
\* session that issues a delete still exists after the delete.
C20_NoSelfDelete ==
  [][res'.op = "deleteUser" /\ requireAdmin(res'.sid) =>
        LET u == Val(sessions[res'.sid].userId) IN
        /\ u \in DOMAIN users => u \in DOMAIN users'
        /\ SqlNumber(res'.param) = u => res'.code = 400 /\ users' = users]_vars

RegOps == {"register", "legacyRegister"}

\* the date 18 years before today, and the day after it
EighteenthBirthdayToday == <<now[1] - 18, now[2], now[3]>>
OneDayShort ==
  LET d == EighteenthBirthdayToday IN
  IF d[3] < DaysIn(d[1], d[2]) THEN <<d[1], d[2], d[3] + 1>>
  ELSE IF d[2] < 12 THEN <<d[1], d[2] + 1, 1>> ELSE <<d[1] + 1, 1, 1>>

\* C18: at every registration endpoint a date of birth one day short of 18
\* years is refused and stores no user, and a date of birth exactly 18 years
\* before today is not refused for age.
C18_AgeBoundary ==
  [][res'.op \in RegOps =>
        /\ res'.dob = Some(OneDayShort) => ~res'.success /\ users' = users
        /\ res'.dob = Some(EighteenthBirthdayToday) =>
              res'.error # "You must be at least 18 years old."]_vars

\* the response reports a duplicate email
Conflict(r) ==
  \/ r.code = 409
  \/ ~r.success /\ r.error = "Email already registered."

\* the response refuses the request body before any email lookup
InvalidBody(r) ==
  \/ r.code = 400
  \/ r.error \in {"All fields are required.", "You must be at least 18 years old."}

\* C19: no two users have emails equal ignoring case, and a registration
\* with a valid body whose email equals an existing user's email ignoring case
\* is answered as a Conflict and stores no user, also when its existence check ran before the
\* other registration's insert.
C19_UniqueEmail ==
  [][/\ \A u, v \in DOMAIN users' :
          LowerEmail(users'[u].email) = LowerEmail(users'[v].email) => u = v
     /\ /\ res'.op \in RegOps
        /\ ~InvalidBody(res')
        /\ \E u \in DOMAIN users : LowerEmail(users[u].email) = LowerEmail(res'.param)
        => Conflict(res') /\ users' = users]_vars

\* C21: no booking, review or favorite references a user that does not exist,
\* and no review references a booking that does not exist.
C21_NoDanglingReference ==
  /\ \A b \in DOMAIN bookings : bookings[b].user_id \in DOMAIN users
  /\ \A r \in DOMAIN reviews : /\ reviews[r].user_id \in DOMAIN users
                               /\ reviews[r].booking_id \in DOMAIN bookings
  /\ \A f \in DOMAIN favorites : favorites[f].user_id \in DOMAIN users

\* a user who had a booking, a review and a favorite has just been deleted
C21_Witness ==
  /\ res.op = "deleteUser" /\ res.code = 200 /\ res.affectedRows = 1
  /\ nextBookingId > 1 /\ DOMAIN bookings = {}
  /\ nextReviewId > 1 /\ DOMAIN reviews = {}
  /\ nextFavoriteId > 1 /\ DOMAIN favorites = {}

\* C22: no step of apply_discount, with or without a valid promo code, changes
\* a promo_codes row; current_uses is the same before and after the call.
C22_DiscountLeavesRows ==
  [][\A c \in DOMAIN calls : calls'[c] # calls[c] => promo_codes' = promo_codes]_vars

\* a call has obtained the discount of a row that is still unused
C22_Witness ==
  \E k \in Done : \E r \in promo_codes :
     /\ k.promo_code = Some(r.code)
     /\ k.promo_type = Some(r.discount_type)
     /\ r.max_uses = Some(1) /\ r.current_uses = 0

\* C23: once a booking's status is cancelled, no operation of the server
\* changes that booking's status to any other value.
C23_CancelledIsTerminal ==
  [][\A b \in DOMAIN bookings \cap DOMAIN bookings' :
        bookings[b].status = "cancelled" => bookings'[b].status = "cancelled"]_vars

\* booking 1 was created and cancelled, and a later booking has been created
C23_Witness ==
  /\ res.op = "createBooking" /\ res.code = 200 /\ res.id > 1
  /\ 1 \in DOMAIN bookings /\ bookings[1].status = "cancelled"

\* the operations behind requireAdmin
AdminOps == {"stats", "updateUser", "deleteUser"}

\* C24: a session's isAdmin is the user's is_admin flag as it was at login and
\* changes with no later role change: only a login or logout of the session
\* changes what requireAdmin decides for it, and an admin operation is let
\* through exactly when the session's own copy of the flag says so.
C24_AdminFromSession ==
  [][\A s \in DOMAIN sessions :
        /\ res'.op = "login" /\ res'.sid = s /\ res'.code = 200
           => sessions'[s].isAdmin = users[res'.id].is_admin
        /\ ~(res'.op \in {"login", "logout"} /\ res'.sid = s)
           => /\ sessions'[s].isAdmin = sessions[s].isAdmin
              /\ sessions'[s].userId = sessions[s].userId
        /\ res'.op \in AdminOps /\ res'.sid = s
           => (res'.code # 403 <=> sessions[s].userId # Null /\ sessions[s].isAdmin)]_vars

\* user 1 was demoted and user 2 promoted while both were logged in; the
\* promoted user's session has just been refused at an admin route
C24_Witness ==
  \E s, t \in DOMAIN sessions :
     /\ sessions[s].userId = Some(1) /\ sessions[s].isAdmin /\ ~users[1].is_admin
     /\ sessions[t].userId = Some(2) /\ ~sessions[t].isAdmin /\ users[2].is_admin
     /\ res.op = "stats" /\ res.sid = t /\ res.code = 403

\* C26: a successful hardcoded admin login sets neither userId nor isAdmin of
\* any session, and an admin route lets a request through only if its session
\* holds the userId and the isAdmin flag of a user login, whatever the
\* hardcoded login answered.
C26_HardcodedLoginNoAccess ==
  [][/\ res'.op \in {"adminLogin", "legacyAdminLogin"}
        => \A s \in DOMAIN sessions : /\ sessions'[s].userId = sessions[s].userId
                                      /\ sessions'[s].isAdmin = sessions[s].isAdmin
     /\ res'.op \in AdminOps /\ res'.code # 403
        => /\ sessions[res'.sid].userId # Null
           /\ sessions[res'.sid].isAdmin]_vars

\* a session that passed the older server's hardcoded admin login and never
\* logged in as a user has just been refused at an admin route
C26_Witness ==
  \E s \in DOMAIN sessions :
     /\ sessions[s].admin /\ sessions[s].userId = Null
     /\ res.op = "stats" /\ res.sid = s /\ res.code = 403

\* the row of user u after a role update with the given body, as claimed
RolesWritten(u, flags) ==
  [users[u] EXCEPT !.is_admin = (flags[1] = Some(TRUE)),
                   !.is_student = (flags[2] = Some(TRUE))]

\* C25 as stated: a role update that is let through writes both flags of the
\* addressed user, an omitted flag as false, and changes no other field of any
\* user and no booking, review or favorite.
C25_WritesOnlyBothFlags ==
  [][res'.op = "updateUser" /\ res'.code = 200 =>
        /\ DOMAIN users' = DOMAIN users
        /\ \A u \in DOMAIN users :
              users'[u] = IF u = SqlNumber(res'.param)
                          THEN RolesWritten(u, res'.flags) ELSE users[u]
        /\ bookings' = bookings /\ reviews' = reviews /\ favorites' = favorites]_vars

\* C25 amended: as stated, except that the addressed user's updated_at becomes
\* the current date when the update changes one of its flags.
C25_WritesBothFlagsAndStamp ==
  [][res'.op = "updateUser" /\ res'.code = 200 =>
        /\ DOMAIN users' = DOMAIN users
        /\ \A u \in DOMAIN users :
              users'[u] = IF u = SqlNumber(res'.param)
                          THEN [RolesWritten(u, res'.flags) EXCEPT !.updated_at =
                                  IF RolesWritten(u, res'.flags) # users[u]
                                  THEN today ELSE @]
                          ELSE users[u]
        /\ bookings' = bookings /\ reviews' = reviews /\ favorites' = favorites]_vars

\* a request that supplied only isAdmin has cleared the student's is_student
\* flag while a booking, a review and a favorite are stored
C25_Witness ==
  /\ res.op = "updateUser" /\ res.code = 200 /\ res.param = "2"
  /\ res.flags = <<Some(FALSE), Null>> /\ res.changedRows = 1
  /\ ~users[2].is_student /\ users[2].updated_at = today
  /\ DOMAIN bookings # {} /\ DOMAIN reviews # {} /\ DOMAIN favorites # {}
====
